---------------------------- MODULE Spec2Model ----------------------------
(***************************************************************************)
(* A model of the database merger (src/core/Merger.cpp) and of the merge   *)
(* dialog that previews and then performs a merge (src/gui/MergeDialog.cpp)*)
(*                                                                         *)
(* A database is a record                                                  *)
(*   groups   the non-root groups, a sequence of [uuid, parent, mod, loc,  *)
(*            name]; the children of a group are the records naming it as  *)
(*            parent, in sequence order (a reparented or new group goes to *)
(*            the end, as QList append does)                               *)
(*   entries  a sequence of [uuid, group, mod, loc, title, hist]; hist is  *)
(*            the history chain, a sequence of revisions [mod, loc, title] *)
(*   del      the deletion log, a sequence of [uuid, time]                 *)
(*   mode     the root group's merge mode                                  *)
(*   maxItems Metadata::historyMaxItems                                    *)
(*   icons    custom icons in insertion order, [uuid, blob]                *)
(*   cd       custom data: a function from its keys to values              *)
(*   lm       custom data's LastModified (NoTime when the key is absent)   *)
(*   modified Database::markAsModified was called                          *)
(* Times are ticks; MsPerSec ticks make one second, the resolution of the  *)
(* persistent format.  "name" stands for a group's name, notes, icon and   *)
(* expiry time, "title" for an entry's fields.                             *)
(***************************************************************************)
EXTENDS Integers, Sequences, FiniteSets, TLC

VARIABLES
    src,        \* the source database (m_sourceDatabase)
    tgt,        \* the target database (m_targetDatabase)
    m_mode,     \* Merger::m_mode, the forced merge mode
    pc,         \* where the caller is: idle, tree, groups, del, done, preview, accepted,
                \* rejected;
                \* null, aborted, inert, crashed for a merger built from a null input
    runs,       \* merge() calls on the target so far
    changes,    \* the change list of the merge() in progress or last returned
    pre,        \* the target when the current merge() call started
    mid,        \* the target when its deletion phase started
    m_changes,  \* MergeDialog::m_changes, the previewed change list
    signal,     \* the signal performMerge emitted
    pass        \* mergeDeletions' loop over the queued groups while it runs: the
                \* queue gs, mergedDeletions md and d, what the loops did so far

vars == <<src, tgt, m_mode, pc, runs, changes, pre, mid, m_changes, signal, pass>>

(* ------------------------------ bounds --------------------------------- *)
MsPerSec == 2
MaxTime == 5
MaxRuns == 2
MaxHistoryMaxItems == 2
MaxHistLen == 2

ROOT == "root"
NoTime == -1
Times == 0..MaxTime
Seconds == {t \in Times : t % MsPerSec = 0}

(* --------------------------- small helpers ----------------------------- *)
Range(s) == {s[i] : i \in DOMAIN s}

RemoveAt(s, i) == [j \in 1..(Len(s) - 1) |-> IF j < i THEN s[j] ELSE s[j + 1]]

\* the first of a set of indexes, 0 when there is none
FirstIndex(hits) == IF hits = {} THEN 0 ELSE CHOOSE i \in hits : \A j \in hits : i <= j

RECURSIVE SortedSeq(_)
SortedSeq(S) ==
    IF S = {} THEN <<>>
    ELSE LET m == CHOOSE x \in S : \A y \in S : x <= y
         IN <<m>> \o SortedSeq(S \ {m})

\* QList::value(i): the element at 0-based index i, or a null pointer
Null == [null |-> TRUE]
ValueAt(s, i) == IF i >= 0 /\ i < Len(s) THEN s[i + 1] ELSE Null

(* ----------------------------- the clock ------------------------------- *)
\* Clock::serialized: a time cut to whole seconds
serialized(t) == t - (t % MsPerSec)

\* compare(a, b, CompareItemIgnoreMilliseconds)
compare(a, b) ==
    IF serialized(a) < serialized(b) THEN -1
    ELSE IF serialized(a) > serialized(b) THEN 1 ELSE 0

(* ------------------------- entries and groups -------------------------- *)
\* the revision an entry holds now, as a history item (Entry::clone(CloneNoFlags))
Rev(e) == [mod |-> e.mod, loc |-> e.loc, title |-> e.title]

\* Entry::equals(other, CompareItemIgnoreMilliseconds) on two history items
RevEquals(a, b) ==
    /\ serialized(a.mod) = serialized(b.mod)
    /\ serialized(a.loc) = serialized(b.loc)
    /\ a.title = b.title

\* the groups reachable from the root by parent links (Group::groupsRecursive)
RECURSIVE ReachFrom(_, _, _)
ReachFrom(db, found, n) ==
    IF n = 0 THEN found
    ELSE ReachFrom(db,
                   found \cup {g.uuid : g \in {x \in Range(db.groups) : x.parent \in found}},
                   n - 1)

LiveGroups(db) == ReachFrom(db, {ROOT}, Len(db.groups))

LiveEntries(db) == {e.uuid : e \in {x \in Range(db.entries) : x.group \in LiveGroups(db)}}

\* Group::findEntryByUuid on the root group: an index into db.entries, 0 for none
findEntryByUuid(db, u) ==
    LET live == LiveGroups(db)
    IN FirstIndex({i \in DOMAIN db.entries :
                       db.entries[i].uuid = u /\ db.entries[i].group \in live})

\* Group::findGroupByUuid on the root group: an index into db.groups, 0 for none
findGroupByUuid(db, u) ==
    LET live == LiveGroups(db)
    IN FirstIndex({i \in DOMAIN db.groups :
                       db.groups[i].uuid = u /\ db.groups[i].parent \in live})

EntriesOf(db, g) == SelectSeq(db.entries, LAMBDA e : e.group = g)
ChildrenOf(db, g) == SelectSeq(db.groups, LAMBDA c : c.parent = g)

(* ----------------------------- changes --------------------------------- *)
\* Merger::Change: group stands for the group's full path, arg for the %1 of the
\* detail text
Change(type, uuid, title, group, details, arg) ==
    [type |-> type, uuid |-> uuid, title |-> title, group |-> group,
     details |-> details, arg |-> arg]

EntryChange(type, e, details) == Change(type, e.uuid, e.title, e.group, details, <<>>)
GroupChange(type, g, details) == Change(type, g.uuid, "", g.uuid, details, <<>>)
TextChange(details, arg) == Change("Unspecified", "", "", "", details, arg)

(* --------------------------- history merger ---------------------------- *)
\* QMap<QDateTime, Entry*>: a function from its keys to revisions
MapPut(m, k, v) == [x \in (DOMAIN m) \cup {k} |-> IF x = k THEN v ELSE m[x]]
MapTake(m, k) == [x \in (DOMAIN m) \ {k} |-> m[x]]
\* QMap::values(): the values in ascending key order
MapValues(m) == LET keys == SortedSeq(DOMAIN m) IN [i \in 1..Len(keys) |-> m[keys[i]]]

\* the loop over the target's history items: a later item replaces an earlier one
\* of the same second
RECURSIVE mergeTargetItems(_, _, _)
mergeTargetItems(merged, items, i) ==
    IF i > Len(items) THEN merged
    ELSE mergeTargetItems(MapPut(merged, serialized(items[i].mod), items[i]), items, i + 1)

\* the loop over the source's history items
RECURSIVE mergeSourceItems(_, _, _, _)
mergeSourceItems(merged, items, i, preferRemote) ==
    IF i > Len(items) THEN merged
    ELSE LET k == serialized(items[i].mod)
             m1 == IF preferRemote /\ k \in DOMAIN merged THEN MapTake(merged, k) ELSE merged
             m2 == IF k \notin DOMAIN m1 THEN MapPut(m1, k, items[i]) ELSE m1
         IN mergeSourceItems(m2, items, i + 1, preferRemote)

\* the current revision of the older side becomes a history item
mergeCurrentRevision(merged, sourceEntry, targetEntry, preferLocal, preferRemote) ==
    LET targetModificationTime == serialized(targetEntry.mod)
        sourceModificationTime == serialized(sourceEntry.mod)
    IN IF targetModificationTime < sourceModificationTime
       THEN LET m1 == IF preferLocal /\ targetModificationTime \in DOMAIN merged
                      THEN MapTake(merged, targetModificationTime) ELSE merged
            IN IF targetModificationTime \notin DOMAIN m1
               THEN MapPut(m1, targetModificationTime, Rev(targetEntry)) ELSE m1
       ELSE IF targetModificationTime > sourceModificationTime
       THEN LET m1 == IF preferRemote /\ sourceModificationTime \notin DOMAIN merged
                      THEN MapTake(merged, sourceModificationTime) ELSE merged
            IN IF sourceModificationTime \notin DOMAIN m1
               THEN MapPut(m1, sourceModificationTime, Rev(sourceEntry)) ELSE m1
       ELSE merged

\* the loop that decides whether the merged chain differs from the target's: it
\* reads index count - i for i = 0 .. maxItems - 1
historyChanged(targetHistoryItems, updatedHistoryItems, maxItems) ==
    \E i \in 0..(maxItems - 1) :
        LET oldEntry == ValueAt(targetHistoryItems, Len(targetHistoryItems) - i)
            newEntry == ValueAt(updatedHistoryItems, Len(updatedHistoryItems) - i)
        IN /\ ~(oldEntry = Null /\ newEntry = Null)
           /\ ~(oldEntry # Null /\ newEntry # Null /\ RevEquals(oldEntry, newEntry))

\* Entry::truncateHistory: the oldest items beyond maxItems are dropped
truncateHistory(hist, maxItems) ==
    IF Len(hist) > maxItems THEN SubSeq(hist, Len(hist) - maxItems + 1, Len(hist)) ELSE hist

\* the end of mergeHistory: the merged chain is installed and truncated when it
\* differs, and dropped when it does not
installHistory(targetHistoryItems, updatedHistoryItems, maxItems, changed) ==
    [changed |-> changed,
     hist |-> IF changed THEN truncateHistory(updatedHistoryItems, maxItems)
              ELSE targetHistoryItems]

compareHistory(targetHistoryItems, updatedHistoryItems, maxItems) ==
    installHistory(targetHistoryItems, updatedHistoryItems, maxItems,
                   historyChanged(targetHistoryItems, updatedHistoryItems, maxItems))

\* merged.values() after the two loops and the current revision of the older side
mergedHistory(sourceEntry, targetEntry) ==
    MapValues(mergeCurrentRevision(
        mergeSourceItems(mergeTargetItems(<<>>, targetEntry.hist, 1),
                         sourceEntry.hist, 1,
                         compare(sourceEntry.mod, targetEntry.mod) > 0),
        sourceEntry, targetEntry,
        compare(sourceEntry.mod, targetEntry.mod) < 0,
        compare(sourceEntry.mod, targetEntry.mod) > 0))

\* Merger::mergeHistory: [changed, hist], hist the target entry's chain afterwards
mergeHistory(sourceEntry, targetEntry, maxItems) ==
    compareHistory(targetEntry.hist, mergedHistory(sourceEntry, targetEntry), maxItems)

(* ------------------------- mover and eraser ---------------------------- *)
\* Merger::moveEntry: the entry at index i goes to the end of group g's entries;
\* time stamping is switched off, so its locationChanged stays
moveEntry(t, i, g) ==
    IF t.entries[i].group = g THEN t
    ELSE [t EXCEPT !.entries = Append(RemoveAt(@, i), [@[i] EXCEPT !.group = g])]

\* Merger::moveGroup: the group at index i goes to the end of group g's children
moveGroup(t, i, g) ==
    IF t.groups[i].parent = g THEN t
    ELSE [t EXCEPT !.groups = Append(RemoveAt(@, i), [@[i] EXCEPT !.parent = g])]

\* an eraser that leaves the entry where it is
eraseEntryKeeps(t, i) == t

\* Merger::eraseEntry: the entry goes, the deletion log is put back as it was
eraseEntry(t, i) == [t EXCEPT !.entries = RemoveAt(@, i)]

\* Merger::eraseGroup
eraseGroup(t, i) == [t EXCEPT !.groups = RemoveAt(@, i)]

(* --------------------------- tree merger ------------------------------- *)
\* the state threaded through a merge: the target and the changes so far
St(t, ch) == [t |-> t, ch |-> ch]

\* a replacement that adds the clone and leaves the target entry in place
synchronizeFromNewerKeepsOld(st, sourceEntry, i, merged) ==
    St([st.t EXCEPT
           !.entries = Append(@, [sourceEntry EXCEPT !.hist = merged.hist,
                                                     !.group = st.t.entries[i].group])],
       Append(st.ch, EntryChange("Modified", st.t.entries[i], "Synchronizing from newer source")))

\* the source is newer: a clone of the source entry, holding the merged history
\* (merged is mergeHistory's result on the clone), replaces the target entry in
\* the target entry's group
synchronizeFromNewer(st, sourceEntry, i, merged) ==
    St([eraseEntry(st.t, i) EXCEPT
           !.entries = Append(@, [sourceEntry EXCEPT !.hist = merged.hist,
                                                     !.group = st.t.entries[i].group])],
       Append(st.ch, EntryChange("Modified", st.t.entries[i], "Synchronizing from newer source")))

\* a merge of histories that installs the merged chain and records nothing
synchronizeFromOlderSilent(st, i, merged) ==
    St([st.t EXCEPT !.entries[i].hist = merged.hist], st.ch)

\* the target is newer or as new: its history takes the source's revisions
synchronizeFromOlder(st, i, merged) ==
    St([st.t EXCEPT !.entries[i].hist = merged.hist],
       IF merged.changed
       THEN Append(st.ch, EntryChange("Modified", st.t.entries[i], "Synchronizing from older source"))
       ELSE st.ch)

\* a resolver in which a tie goes to the source
resolveEntryConflictTieToSource(st, sourceEntry, i) ==
    IF compare(st.t.entries[i].mod, sourceEntry.mod) <= 0
    THEN synchronizeFromNewer(st, sourceEntry, i,
                              mergeHistory(st.t.entries[i], sourceEntry, st.t.maxItems))
    ELSE synchronizeFromOlder(st, i, mergeHistory(sourceEntry, st.t.entries[i], st.t.maxItems))

\* Merger::resolveEntryConflict_MergeHistories, the target entry at index i
resolveEntryConflict(st, sourceEntry, i) ==
    IF compare(st.t.entries[i].mod, sourceEntry.mod) < 0
    THEN synchronizeFromNewer(st, sourceEntry, i,
                              mergeHistory(st.t.entries[i], sourceEntry, st.t.maxItems))
    ELSE synchronizeFromOlder(st, i, mergeHistory(sourceEntry, st.t.entries[i], st.t.maxItems))

\* the target entry at index i goes to the target group when the source's
\* location is the newer one; the result is the state and the entry's index
relocateEntry(st, sourceEntry, targetGroup, i) ==
    IF st.t.entries[i].loc < sourceEntry.loc /\ st.t.entries[i].group # targetGroup
    THEN [st |-> St(moveEntry(st.t, i, targetGroup),
                    Append(st.ch, EntryChange("Moved", sourceEntry, "Relocating"))),
          i |-> Len(st.t.entries)]
    ELSE [st |-> st, i |-> i]

resolveRelocated(r, sourceEntry) == resolveEntryConflict(r.st, sourceEntry, r.i)

\* the body of mergeGroup's loop over the source group's entries, i the index of
\* the target's entry of that uuid
mergeEntryAt(st, sourceEntry, targetGroup, i) ==
    IF i = 0
    THEN St([st.t EXCEPT !.entries = Append(@, [sourceEntry EXCEPT !.group = targetGroup])],
            Append(st.ch, EntryChange("Added", sourceEntry, "Creating missing")))
    ELSE resolveRelocated(relocateEntry(st, sourceEntry, targetGroup, i), sourceEntry)

mergeEntry(st, sourceEntry, targetGroup) ==
    mergeEntryAt(st, sourceEntry, targetGroup, findEntryByUuid(st.t, sourceEntry.uuid))

RECURSIVE mergeEntries(_, _, _, _)
mergeEntries(st, sourceEntries, k, targetGroup) ==
    IF k > Len(sourceEntries) THEN st
    ELSE mergeEntries(mergeEntry(st, sourceEntries[k], targetGroup),
                      sourceEntries, k + 1, targetGroup)

\* Merger::resolveGroupConflict, the target group at index i
resolveGroupConflict(st, sourceChildGroup, i) ==
    LET timeExisting == st.t.groups[i].mod
        timeOther == sourceChildGroup.mod
    IN IF timeExisting < timeOther
       THEN St([st.t EXCEPT !.groups[i].name = sourceChildGroup.name,
                            !.groups[i].mod = timeOther],
               Append(st.ch, GroupChange("Modified", sourceChildGroup,
                                         "Overwriting group properties")))
       ELSE st

\* the target group at index i goes to the target group when the source's
\* location is the newer one, and takes the source's locationChanged
relocateGroup(st, sourceChildGroup, targetGroup, i) ==
    IF st.t.groups[i].loc < sourceChildGroup.loc /\ st.t.groups[i].parent # targetGroup
    THEN [st |-> St([moveGroup(st.t, i, targetGroup) EXCEPT
                        !.groups[Len(st.t.groups)].loc = sourceChildGroup.loc],
                    Append(st.ch, GroupChange("Moved", sourceChildGroup, "Relocating"))),
          i |-> Len(st.t.groups)]
    ELSE [st |-> st, i |-> i]

resolveRelocatedGroup(r, sourceChildGroup) == resolveGroupConflict(r.st, sourceChildGroup, r.i)

\* the body of mergeGroup's loop over the source group's children, up to the
\* recursive call; i is the index of the target's group of that uuid
mergeChildGroupAt(st, sourceChildGroup, targetGroup, i) ==
    IF i = 0
    THEN St([st.t EXCEPT !.groups = Append(@, [sourceChildGroup EXCEPT !.parent = targetGroup])],
            Append(st.ch, GroupChange("Added", sourceChildGroup, "Creating missing")))
    ELSE resolveRelocatedGroup(relocateGroup(st, sourceChildGroup, targetGroup, i),
                               sourceChildGroup)

mergeChildGroup(st, sourceChildGroup, targetGroup) ==
    mergeChildGroupAt(st, sourceChildGroup, targetGroup,
                      findGroupByUuid(st.t, sourceChildGroup.uuid))

\* Merger::mergeGroup on the pair (sourceGroup, targetGroup), given by uuid
RECURSIVE mergeGroup(_, _, _, _)
RECURSIVE mergeChildGroups(_, _, _, _, _)
mergeGroup(s, st, sourceGroup, targetGroup) ==
    mergeChildGroups(s, mergeEntries(st, EntriesOf(s, sourceGroup), 1, targetGroup),
                     ChildrenOf(s, sourceGroup), 1, targetGroup)

mergeChildGroups(s, st, sourceChildGroups, k, targetGroup) ==
    IF k > Len(sourceChildGroups) THEN st
    ELSE mergeChildGroups(
             s,
             mergeGroup(s, mergeChildGroup(st, sourceChildGroups[k], targetGroup),
                        sourceChildGroups[k].uuid, sourceChildGroups[k].uuid),
             sourceChildGroups, k + 1, targetGroup)

\* a group moved beneath its own descendant leaves the tree with everything
\* below it: no path from the root reaches these objects again, so they are no
\* longer part of the database
releaseDetached(st) ==
    St([st.t EXCEPT !.groups = SelectSeq(@, LAMBDA g : g.parent \in LiveGroups(st.t)),
                    !.entries = SelectSeq(@, LAMBDA e : e.group \in LiveGroups(st.t))],
       st.ch)

\* merge()'s call of mergeGroup on the two root groups
mergeRootGroup(s, t) == releaseDetached(mergeGroup(s, St(t, <<>>), ROOT, ROOT))

(* -------------------------- deletion merger ---------------------------- *)
\* Merger::setForcedMergeMode overrides the root group's mode
effectiveMode(forced, t) == IF forced = "Default" THEN t.mode ELSE forced

\* a union that keeps the tombstone seen first
unionDeletionKeepsFirst(t, object, acc) ==
    IF object.uuid \notin DOMAIN acc.md
    THEN IF findEntryByUuid(t, object.uuid) # 0
         THEN [acc EXCEPT !.md = MapPut(@, object.uuid, object), !.es = Append(@, object.uuid)]
         ELSE IF findGroupByUuid(t, object.uuid) # 0
         THEN [acc EXCEPT !.md = MapPut(@, object.uuid, object), !.gs = Append(@, object.uuid)]
         ELSE [acc EXCEPT !.md = MapPut(@, object.uuid, object), !.deletions = Append(@, object)]
    ELSE acc

\* the body of the loop over targetDeletions + sourceDeletions: md is
\* mergedDeletions, es and gs the queues of tombstoned live entries and groups
\* (by uuid), deletions the log being built
unionDeletion(t, object, acc) ==
    IF object.uuid \notin DOMAIN acc.md
    THEN IF findEntryByUuid(t, object.uuid) # 0
         THEN [acc EXCEPT !.md = MapPut(@, object.uuid, object), !.es = Append(@, object.uuid)]
         ELSE IF findGroupByUuid(t, object.uuid) # 0
         THEN [acc EXCEPT !.md = MapPut(@, object.uuid, object), !.gs = Append(@, object.uuid)]
         ELSE [acc EXCEPT !.md = MapPut(@, object.uuid, object), !.deletions = Append(@, object)]
    ELSE IF acc.md[object.uuid].time > object.time
         THEN [acc EXCEPT !.md = MapPut(@, object.uuid, object)]
         ELSE acc

RECURSIVE unionDeletions(_, _, _, _)
unionDeletions(t, objects, k, acc) ==
    IF k > Len(objects) THEN acc
    ELSE unionDeletions(t, objects, k + 1, unionDeletion(t, objects[k], acc))

\* a loop body that erases the entry and leaves its tombstone out of the log
deleteEntryDropsTombstone(d, i, object) ==
    IF d.t.entries[i].mod > object.time
    THEN [d EXCEPT !.decided = Append(@, object.uuid)]
    ELSE [t |-> eraseEntry(d.t, i),
          ch |-> Append(d.ch, EntryChange("Deleted", d.t.entries[i], "Deleting child")),
          deletions |-> d.deletions,
          decided |-> Append(d.decided, object.uuid)]

\* the body of the loop over the queued entries, the entry at index i; d is
\* [t, ch, deletions, decided], decided the uuids in the order in which the
\* loops kept or erased their items
deleteEntry(d, i, object) ==
    IF d.t.entries[i].mod > object.time
    THEN [d EXCEPT !.decided = Append(@, object.uuid)]
    ELSE [t |-> eraseEntry(d.t, i),
          ch |-> Append(d.ch, EntryChange("Deleted", d.t.entries[i], "Deleting child")),
          deletions |-> Append(d.deletions, object),
          decided |-> Append(d.decided, object.uuid)]

RECURSIVE deleteEntries(_, _, _)
deleteEntries(d, es, md) ==
    IF es = <<>> THEN d
    ELSE deleteEntries(deleteEntry(d, findEntryByUuid(d.t, Head(es)), md[Head(es)]),
                       Tail(es), md)

\* a loop body that erases a group with everything it holds, and passes over a
\* queued group that went with its parent
deleteGroupWithContent(d, i, object) ==
    IF i = 0 \/ d.t.groups[IF i = 0 THEN 1 ELSE i].mod > object.time
    THEN [d EXCEPT !.decided = Append(@, object.uuid)]
    ELSE [t |-> releaseDetached(St(eraseGroup(d.t, i), <<>>)).t,
          ch |-> Append(d.ch, GroupChange("Deleted", d.t.groups[i], "Deleting child")),
          deletions |-> Append(d.deletions, object),
          decided |-> Append(d.decided, object.uuid)]

\* a loop body that erases an empty group whenever it was last modified
deleteGroupIgnoresAge(d, i, object) ==
    IF \/ \E e \in Range(d.t.entries) : e.group = d.t.groups[i].uuid
       \/ \E c \in Range(d.t.groups) : c.parent = d.t.groups[i].uuid
    THEN [d EXCEPT !.decided = Append(@, object.uuid)]
    ELSE [t |-> eraseGroup(d.t, i),
          ch |-> Append(d.ch, GroupChange("Deleted", d.t.groups[i], "Deleting child")),
          deletions |-> Append(d.deletions, object),
          decided |-> Append(d.decided, object.uuid)]

\* the body of the loop over the queued groups once no child of the group at
\* index i is queued
deleteGroup(d, i, object) ==
    IF d.t.groups[i].mod > object.time
    THEN [d EXCEPT !.decided = Append(@, object.uuid)]
    ELSE IF \/ \E e \in Range(d.t.entries) : e.group = d.t.groups[i].uuid
            \/ \E c \in Range(d.t.groups) : c.parent = d.t.groups[i].uuid
    THEN [d EXCEPT !.decided = Append(@, object.uuid)]
    ELSE [t |-> eraseGroup(d.t, i),
          ch |-> Append(d.ch, GroupChange("Deleted", d.t.groups[i], "Deleting child")),
          deletions |-> Append(d.deletions, object),
          decided |-> Append(d.decided, object.uuid)]

\* a group loop that takes the queue as it is
RECURSIVE deleteGroupsInQueueOrder(_, _, _)
deleteGroupsInQueueOrder(d, gs, md) ==
    IF gs = <<>> THEN d
    ELSE deleteGroupsInQueueOrder(deleteGroup(d, findGroupByUuid(d.t, Head(gs)), md[Head(gs)]),
                                  Tail(gs), md)

\* a turn of the loop that lets go of a group with a queued child
groupPassDropsRequeued(p) ==
    IF \E c \in Range(p.d.t.groups) : c.parent = Head(p.gs) /\ c.uuid \in Range(Tail(p.gs))
    THEN [p EXCEPT !.gs = Tail(@)]
    ELSE [p EXCEPT !.d = deleteGroup(@, findGroupByUuid(@.t, Head(p.gs)), p.md[Head(p.gs)]),
                   !.gs = Tail(@)]

\* one turn of the loop over the queued groups, on p = [d, gs, md] with gs not
\* empty: takeFirst, then back to the tail or decided
groupPass(p) ==
    IF \E c \in Range(p.d.t.groups) : c.parent = Head(p.gs) /\ c.uuid \in Range(Tail(p.gs))
    THEN [p EXCEPT !.gs = Append(Tail(@), Head(@))]
    ELSE [p EXCEPT !.d = deleteGroup(@, findGroupByUuid(@.t, Head(p.gs)), p.md[Head(p.gs)]),
                   !.gs = Tail(@)]

RECURSIVE deleteGroups(_, _, _)
\* the loop goes on from p
groupPassFrom(p) == deleteGroups(p.d, p.gs, p.md)

\* while (!groups.isEmpty()): turn after turn until the queue is empty
deleteGroups(d, gs, md) ==
    IF gs = <<>> THEN d
    ELSE groupPassFrom(groupPass([d |-> d, gs |-> gs, md |-> md]))

\* the end of mergeDeletions: the target's log becomes the list built
setDeletedObjects(t, d) ==
    St([d.t EXCEPT !.del = d.deletions],
       IF d.deletions # t.del
       THEN Append(d.ch, TextChange("Changed deleted objects", <<>>))
       ELSE d.ch)

\* the loop over the queued entries, from the queues the union left
decideEntries(t, acc) ==
    deleteEntries([t |-> t, ch |-> <<>>, deletions |-> acc.deletions, decided |-> <<>>],
                  acc.es, acc.md)

\* the two loops, entries then groups, over the queues the union left
decideQueued(t, acc) == deleteGroups(decideEntries(t, acc), acc.gs, acc.md)

applyDeletions(t, acc) == setDeletedObjects(t, decideQueued(t, acc))

\* the loop over targetDeletions + sourceDeletions
mergedDeletions(s, t) ==
    unionDeletions(t, t.del \o s.del, 1,
                   [md |-> <<>>, deletions |-> <<>>, es |-> <<>>, gs |-> <<>>])

\* Merger::mergeDeletions
mergeDeletions(s, st, mergeMode) ==
    IF mergeMode # "Synchronize" THEN St(st.t, <<>>)
    ELSE applyDeletions(st.t, mergedDeletions(s, st.t))

(* -------------------------- metadata merger ---------------------------- *)
\* CustomData::isProtected
ProtectedKeys == {"_p"}
isProtected(key) == key \in ProtectedKeys

hasCustomIcon(t, u) == \E i \in DOMAIN t.icons : t.icons[i].uuid = u

\* an icon loop that writes the source's icon over one the target holds
RECURSIVE mergeIconsOverwrites(_, _, _)
mergeIconsOverwrites(s, st, k) ==
    IF k > Len(s.icons) THEN st
    ELSE mergeIconsOverwrites(s,
             St([st.t EXCEPT !.icons =
                    IF hasCustomIcon(st.t, s.icons[k].uuid)
                    THEN [i \in DOMAIN @ |-> IF @[i].uuid = s.icons[k].uuid
                                               THEN s.icons[k] ELSE @[i]]
                    ELSE Append(@, s.icons[k])],
                IF hasCustomIcon(st.t, s.icons[k].uuid) THEN st.ch
                ELSE Append(st.ch, TextChange("Adding missing icon", <<s.icons[k].uuid>>))),
             k + 1)

\* the loop over the source's customIconsOrder
RECURSIVE mergeIcons(_, _, _)
mergeIcons(s, st, k) ==
    IF k > Len(s.icons) THEN st
    ELSE IF hasCustomIcon(st.t, s.icons[k].uuid) THEN mergeIcons(s, st, k + 1)
    ELSE mergeIcons(s,
                    St([st.t EXCEPT !.icons = Append(@, s.icons[k])],
                       Append(st.ch, TextChange("Adding missing icon", <<s.icons[k].uuid>>))),
                    k + 1)

\* the loop over the target's custom data keys: CustomData::remove stamps
\* LastModified with the current time
RECURSIVE removeCustomData(_, _, _, _, _)
removeCustomData(s, st, keys, k, now) ==
    IF k > Len(keys) THEN st
    ELSE LET key == keys[k]
         IN IF key \notin DOMAIN s.cd /\ ~isProtected(key)
            THEN removeCustomData(s,
                     St([st.t EXCEPT !.cd = MapTake(@, key), !.lm = now],
                        Append(st.ch, TextChange("Removed custom data", <<key, st.t.cd[key]>>))),
                     keys, k + 1, now)
            ELSE removeCustomData(s, st, keys, k + 1, now)

\* the loop over the source's custom data keys; CustomData::value of a missing
\* key is the empty string
customDataValue(db, key) == IF key \in DOMAIN db.cd THEN db.cd[key] ELSE ""

RECURSIVE transferCustomData(_, _, _, _, _)
transferCustomData(s, st, keys, k, now) ==
    IF k > Len(keys) THEN st
    ELSE LET key == keys[k]
             sourceValue == customDataValue(s, key)
             targetValue == customDataValue(st.t, key)
         IN IF sourceValue # targetValue
            THEN transferCustomData(s,
                     St([st.t EXCEPT !.cd = MapPut(@, key, sourceValue), !.lm = now],
                        Append(st.ch, TextChange("Adding custom data", <<key, sourceValue>>))),
                     keys, k + 1, now)
            ELSE transferCustomData(s, st, keys, k + 1, now)

\* QHash::keys in a fixed order
KeyOrder == <<"_p", "k1", "k2">>
keysOf(db) == SelectSeq(KeyOrder, LAMBDA key : key \in DOMAIN db.cd)

\* Merger::mergeMetadata; now is the clock's time while it runs
mergeCustomData(s, st, now) ==
    IF \/ st.t.lm = NoTime
       \/ (s.lm # NoTime /\ st.t.lm < s.lm)
    THEN transferCustomData(s, removeCustomData(s, st, keysOf(st.t), 1, now),
                            keysOf(s), 1, now)
    ELSE st

mergeMetadata(s, st, now) == mergeCustomData(s, mergeIcons(s, St(st.t, <<>>), 1), now)

(* ---------------------------- merge driver ----------------------------- *)
\* Merger::merge: the three phases in order, then markAsModified
markAsModified(st) ==
    St(IF st.ch # <<>> THEN [st.t EXCEPT !.modified = TRUE] ELSE st.t, st.ch)

\* a merger that hands the source's own entries to the target instead of clones
sourceGivesEntries(s, ch) ==
    [s EXCEPT !.entries =
        SelectSeq(@, LAMBDA e : ~\E k \in DOMAIN ch : ch[k].type = "Added" /\ ch[k].uuid = e.uuid)]

\* a driver that puts a phase's changes before those made so far
prependChanges(ch, st) == St(st.t, st.ch \o ch)

\* a phase's changes go after those made so far
appendChanges(ch, st) == St(st.t, ch \o st.ch)

afterDeletions(s, st, now) == markAsModified(appendChanges(st.ch, mergeMetadata(s, st, now)))

afterTree(s, st, forced, now) ==
    afterDeletions(s, appendChanges(st.ch, mergeDeletions(s, st, effectiveMode(forced, st.t))),
                   now)

merge(s, t, forced, now) == afterTree(s, mergeRootGroup(s, t), forced, now)

(* ------------------------------ dialog --------------------------------- *)
\* Metadata::historyMaxItems of a newly constructed Database
DefaultHistoryMaxItems == 10

\* MergeDialog::setupChangeTable's temporary database: a new Database whose root
\* group is a clone of the target's root group, with entries and history
tmpDatabase(t) ==
    [groups |-> t.groups, entries |-> t.entries, del |-> <<>>, mode |-> t.mode,
     maxItems |-> DefaultHistoryMaxItems, icons |-> <<>>, cd |-> <<>>, lm |-> NoTime,
     modified |-> FALSE]

(* --------------------------- initial states ---------------------------- *)
Db(groups, entries, del, mode, maxItems, icons, cd, lm) ==
    [groups |-> groups, entries |-> entries, del |-> del, mode |-> mode,
     maxItems |-> maxItems, icons |-> icons, cd |-> cd, lm |-> lm, modified |-> FALSE]

\* a group, an entry or a tombstone that is there or not
GroupOpt(u, parents, mods, locs, names) ==
    {<<>>} \cup {<<[uuid |-> u, parent |-> p, mod |-> m, loc |-> l, name |-> n]>> :
                    p \in parents, m \in mods, l \in locs, n \in names}
EntryOpt(u, groups, mods, locs, titles, hists) ==
    {<<>>} \cup {<<[uuid |-> u, group |-> g, mod |-> m, loc |-> l, title |-> ti, hist |-> h]>> :
                    g \in groups, m \in mods, l \in locs, ti \in titles, h \in hists}
DelOpt(u, times) == {<<>>} \cup {<<[uuid |-> u, time |-> t]>> : t \in times}

\* history chains: one item per second at most, oldest first
HistChains(titles) ==
    LET revs == [mod : Times, loc : {0}, title : titles]
    IN {h \in UNION {[1..n -> revs] : n \in 0..MaxHistLen} :
            \A i \in 1..(Len(h) - 1) : serialized(h[i].mod) < serialized(h[i + 1].mod)}

\* the invariants of a database as loaded: a tree, unique uuids, every history
\* chain older than its entry
WellFormed(db) ==
    /\ \A i, j \in DOMAIN db.groups : db.groups[i].uuid = db.groups[j].uuid => i = j
    /\ \A i, j \in DOMAIN db.entries : db.entries[i].uuid = db.entries[j].uuid => i = j
    /\ \A g \in Range(db.groups) : g.uuid \in LiveGroups(db) /\ g.uuid # g.parent
    /\ \A e \in Range(db.entries) :
          /\ e.group \in LiveGroups(db)
          /\ \A i \in DOMAIN e.hist : serialized(e.hist[i].mod) < serialized(e.mod)

HistoryCapped(db) == \A e \in Range(db.entries) : Len(e.hist) <= db.maxItems

\* no loop over queued groups is running
NoPass == [d |-> <<>>, gs |-> <<>>, md |-> <<>>]

InitRest ==
    /\ m_mode = "Default"
    /\ pc = "idle"
    /\ runs = 0
    /\ changes = <<>>
    /\ pre = tgt
    /\ mid = tgt
    /\ m_changes = <<>>
    /\ signal = "none"
    /\ pass = NoPass

\* one entry with history on both sides, or on the source alone
InitHistory ==
    /\ src \in {db \in {Db(<<>>, e, <<>>, "KeepNewer", MaxHistLen, <<>>, <<>>, NoTime) :
                         e \in EntryOpt("e1", {ROOT}, Times, {0}, {"a", "b"}, HistChains({"h"})) \ {<<>>}} :
                   WellFormed(db)}
    /\ tgt \in {db \in {Db(<<>>, e, <<>>, "KeepNewer", n, <<>>, <<>>, NoTime) :
                         e \in EntryOpt("e1", {ROOT}, Times, {0}, {"a", "b"}, HistChains({"h"})),
                         n \in 0..MaxHistoryMaxItems} :
                   WellFormed(db) /\ HistoryCapped(db)}
    /\ InitRest

\* two groups and an entry that the two sides hold under different parents, with
\* older and newer location and modification times
Second == MsPerSec

TreeDbs(groups1, groups2, entries) ==
    {db \in {Db(g1 \o g2, e, <<>>, "KeepNewer", MaxHistLen, <<>>, <<>>, NoTime) :
                g1 \in groups1, g2 \in groups2, e \in entries} :
        WellFormed(db)}

InitTree ==
    /\ src \in TreeDbs(GroupOpt("g1", {ROOT, "g2"}, {Second}, {0, Second}, {"s"}) \ {<<>>},
                       GroupOpt("g2", {ROOT, "g1"}, {0}, {0, Second}, {"s"}) \ {<<>>},
                       EntryOpt("e1", {ROOT, "g1", "g2"}, {0, Second}, {0, Second}, {"s"}, {<<>>})
                           \ {<<>>})
    /\ tgt \in TreeDbs(GroupOpt("g1", {ROOT, "g2"}, {0}, {0, Second}, {"t"}),
                       GroupOpt("g2", {ROOT, "g1"}, {0}, {0, Second}, {"t"}),
                       EntryOpt("e1", {ROOT, "g1", "g2"}, {0, Second}, {0, Second}, {"t"}, {<<>>}))
    /\ InitRest

\* a group both sides hold, modified on each side at any time, whole second or
\* not, and a second group the target may lack
InitGroups ==
    /\ src \in TreeDbs(GroupOpt("g1", {ROOT}, Times, {0}, {"s"}) \ {<<>>},
                       GroupOpt("g2", {ROOT, "g1"}, {Second + 1}, {0}, {"s"}), {<<>>})
    /\ tgt \in TreeDbs(GroupOpt("g1", {ROOT}, Times, {0}, {"t"}) \ {<<>>},
                       GroupOpt("g2", {ROOT}, {Second}, {0}, {"t"}), {<<>>})
    /\ InitRest

\* the logs that hold one tombstone for each uuid of a set, in every order
RECURSIVE Logs(_, _)
Logs(uuids, time) ==
    IF uuids = {} THEN {<<>>}
    ELSE UNION {{<<[uuid |-> u, time |-> time]>> \o log : log \in Logs(uuids \ {u}, time)} :
                   u \in uuids}

\* three groups the target holds one beneath the other or side by side, with an
\* entry in the lowest, tombstoned in any subset and any order of the two logs
InitNesting ==
    /\ src \in {Db(<<>>, <<>>, d, "Synchronize", MaxHistLen, <<>>, <<>>, NoTime) :
                   d \in UNION {Logs(U, Second + 1) : U \in SUBSET {"g3", "e1"}}}
    /\ tgt \in {db \in {Db(g1 \o g2 \o g3, e, d, "Synchronize", MaxHistLen, <<>>, <<>>, NoTime) :
                           g1 \in GroupOpt("g1", {ROOT}, {0, 2 * Second}, {0}, {"t"}) \ {<<>>},
                           g2 \in GroupOpt("g2", {ROOT, "g1"}, {0}, {0}, {"t"}) \ {<<>>},
                           g3 \in GroupOpt("g3", {ROOT, "g1", "g2"}, {0, 2 * Second}, {0}, {"t"})
                                      \ {<<>>},
                           e \in EntryOpt("e1", {"g2", "g3"}, {0}, {0}, {"t"}, {<<>>}),
                           d \in UNION {Logs(U, Second + 1) : U \in SUBSET {"g1", "g2", "g3"}}} :
                   WellFormed(db)}
    /\ InitRest

\* tombstones on both sides for items the target holds, in Synchronize mode
DeletionDbs(groups1, groups2, entries, dels1, dels2, dels3) ==
    {db \in {Db(g1 \o g2, e, d3 \o d1 \o d2, "Synchronize", MaxHistLen, <<>>, <<>>, NoTime) :
                g1 \in groups1, g2 \in groups2, e \in entries,
                d1 \in dels1, d2 \in dels2, d3 \in dels3} :
        WellFormed(db)}

InitDeletions ==
    /\ src \in DeletionDbs({<<>>}, {<<>>},
                           EntryOpt("e1", {ROOT}, {0, 2 * Second}, {0}, {"s"}, {<<>>}),
                           DelOpt("g1", {Second + 1}), DelOpt("g2", {Second + 1}),
                           DelOpt("e1", {1, Second + 1}))
    /\ tgt \in DeletionDbs(GroupOpt("g1", {ROOT}, {0, 2 * Second}, {0}, {"t"}),
                           GroupOpt("g2", {ROOT, "g1"}, {0, 2 * Second}, {0}, {"t"}),
                           EntryOpt("e1", {ROOT, "g1", "g2"}, {0, Second, 2 * Second}, {0},
                                    {"t"}, {<<>>}),
                           DelOpt("g1", {Second + 1}), DelOpt("g2", {Second + 1}),
                           DelOpt("e1", {Second, Second + 1}))
    /\ InitRest

\* custom icons and custom data on both sides
IconSeqs(blob) ==
    {<<>>, <<[uuid |-> "i1", blob |-> blob]>>, <<[uuid |-> "i2", blob |-> blob]>>,
     <<[uuid |-> "i1", blob |-> blob], [uuid |-> "i2", blob |-> blob]>>,
     <<[uuid |-> "i2", blob |-> blob], [uuid |-> "i1", blob |-> blob]>>}

CustomDataSets(values1, values2, valuesP) ==
    UNION {[K -> {"", "v", "w"}] : K \in SUBSET {"_p", "k1", "k2"}} \cap
    {cd \in UNION {[K -> {"", "v", "w"}] : K \in SUBSET {"_p", "k1", "k2"}} :
        /\ "k1" \in DOMAIN cd => cd["k1"] \in values1
        /\ "k2" \in DOMAIN cd => cd["k2"] \in values2
        /\ "_p" \in DOMAIN cd => cd["_p"] \in valuesP}

MetadataDbs(entries, blob, cds, lms) ==
    {Db(<<>>, e, <<>>, "KeepNewer", MaxHistLen, icons, cd, lm) :
        e \in entries, icons \in IconSeqs(blob), cd \in cds, lm \in lms}

InitMetadata ==
    /\ src \in MetadataDbs({<<>>}, "s", CustomDataSets({"", "w"}, {"w"}, {"w"}), {NoTime, Second})
    /\ tgt \in MetadataDbs({<<>>}, "t", CustomDataSets({"v", "w"}, {"v"}, {"v"}),
                           {NoTime, 0, Second, 2 * Second})
    /\ InitRest

\* a Synchronize target in which all three phases have something to do: an
\* entry to add or update, a tombstoned entry, icons and custom data
PhasesDbs(entries1, entries2, dels, iconss, cds) ==
    {Db(<<>>, e1 \o e2, d, "Synchronize", MaxHistLen, icons, cd, NoTime) :
        e1 \in entries1, e2 \in entries2, d \in dels, icons \in iconss, cd \in cds}

InitPhases ==
    /\ src \in PhasesDbs(EntryOpt("e1", {ROOT}, {0, 2 * Second}, {0}, {"s"}, {<<>>}) \ {<<>>},
                         {<<>>}, DelOpt("e2", {Second + 1}),
                         {<<>>, <<[uuid |-> "i1", blob |-> "s"]>>},
                         CustomDataSets({"w"}, {}, {}))
    /\ tgt \in PhasesDbs(EntryOpt("e1", {ROOT}, {0, Second}, {0}, {"t"}, {<<>>}),
                         EntryOpt("e2", {ROOT}, {0, 2 * Second}, {0}, {"t"}, {<<>>}),
                         DelOpt("e1", {Second + 1}),
                         {<<>>, <<[uuid |-> "i2", blob |-> "t"]>>},
                         CustomDataSets({"v"}, {"v"}, {}))
    /\ InitRest

(* ------------------------------ actions -------------------------------- *)
\* the current time when a merge runs: not before any time the databases hold
Clock == {MaxTime - 1, MaxTime}

\* the source after the merger has worked on it and made the changes ch: the
\* merger holds it through pointers to const and gives the target clones of its
\* entries, groups and revisions (sourceEntry->clone, sourceChildGroup->clone)
sourceAfterMerge(s, ch) == s

\* what a step that ran a phase and got st leaves in the variables
PhaseDone(st) == tgt' = st.t /\ changes' = st.ch /\ src' = sourceAfterMerge(src, st.ch)

TreeMerged(st) == PhaseDone(st) /\ mid' = st.t

Performed(st) ==
    /\ PhaseDone(st)
    /\ signal' = IF st.ch # m_changes THEN "databaseModifiedMerge" ELSE "databaseMerged"

\* the modes a caller forces: forcing the target root's own mode changes nothing
ForcedModes == {"KeepNewer", "Synchronize"}

\* Merger::setForcedMergeMode, called on a merger before it merges
SetForcedMergeMode ==
    /\ pc = "idle"
    /\ runs = 0
    /\ \E mode \in ForcedModes \ {tgt.mode, m_mode} : m_mode' = mode
    /\ UNCHANGED <<src, tgt, pc, runs, changes, pre, mid, m_changes, signal, pass>>

\* Merger::resetForcedMergeMode
ResetForcedMergeMode ==
    /\ pc = "idle"
    /\ runs = 0
    /\ m_mode # "Default"
    /\ m_mode' = "Default"
    /\ UNCHANGED <<src, tgt, pc, runs, changes, pre, mid, m_changes, signal, pass>>

\* merge(), first phase: changes << mergeGroup(m_context)
MergeTree ==
    /\ pc \in {"idle", "done"}
    /\ runs < MaxRuns
    /\ TreeMerged(mergeRootGroup(src, tgt))
    /\ pre' = tgt
    /\ runs' = runs + 1
    /\ pc' = "tree"
    /\ UNCHANGED <<m_mode, m_changes, signal, pass>>

\* the loop over the queued groups as the union and the entry loop leave it
enterGroupPass(t, acc) == [d |-> decideEntries(t, acc), gs |-> acc.gs, md |-> acc.md]

\* merge(), second phase: mergeDeletions(m_context) returns at once outside
\* Synchronize mode; in Synchronize mode it builds the union, runs the loop over
\* the queued entries and comes to the loop over the queued groups
MergeDeletions ==
    /\ pc = "tree"
    /\ IF effectiveMode(m_mode, tgt) # "Synchronize"
       THEN /\ PhaseDone(appendChanges(changes,
                             mergeDeletions(src, St(tgt, <<>>), effectiveMode(m_mode, tgt))))
            /\ pc' = "del"
            /\ pass' = pass
       ELSE /\ pass' = enterGroupPass(tgt, mergedDeletions(src, tgt))
            /\ pc' = "groups"
            /\ UNCHANGED <<src, tgt, changes>>
    /\ UNCHANGED <<m_mode, runs, pre, mid, m_changes, signal>>

\* while (!groups.isEmpty()): the test of the loop, followed by one turn of it
\* or, when the queue is empty, by setDeletedObjects and the return of
\* mergeDeletions' changes
GroupPass ==
    /\ pc = "groups"
    /\ IF pass.gs # <<>>
       THEN /\ pass' = groupPass(pass)
            /\ UNCHANGED <<src, tgt, pc, changes>>
       ELSE /\ PhaseDone(appendChanges(changes, setDeletedObjects(tgt, pass.d)))
            /\ pc' = "del"
            /\ pass' = NoPass
    /\ UNCHANGED <<m_mode, runs, pre, mid, m_changes, signal>>

\* merge(), third phase and return: changes << mergeMetadata(m_context), then
\* markAsModified when the list is not empty
MergeMetadata ==
    /\ pc = "del"
    /\ \E now \in Clock :
          PhaseDone(markAsModified(appendChanges(changes,
                                                 mergeMetadata(src, St(tgt, <<>>), now))))
    /\ pc' = "done"
    /\ UNCHANGED <<m_mode, runs, pre, mid, m_changes, signal, pass>>

\* MergeDialog::setupChangeTable, called by the dialog's constructor; the dialog
\* builds mergers of its own and forces no mode on them, so it is opened here
\* only while no mode is forced on the caller's merger
SetupChangeTable ==
    /\ pc = "idle"
    /\ m_mode = "Default"
    /\ m_changes = <<>>
    /\ \E now \in Clock :
          m_changes' = merge(src, tmpDatabase(tgt), "Default", now).ch
    /\ src' = sourceAfterMerge(src, m_changes')
    /\ pc' = "preview"
    /\ UNCHANGED <<tgt, m_mode, runs, changes, pre, mid, signal, pass>>

\* MergeDialog::performMerge
PerformMerge ==
    /\ pc = "preview"
    /\ \E now \in Clock : Performed(merge(src, tgt, "Default", now))
    /\ pre' = tgt
    /\ mid' = mergeRootGroup(src, tgt).t
    /\ runs' = runs + 1
    /\ pc' = "accepted"
    /\ UNCHANGED <<m_mode, m_changes, pass>>

\* MergeDialog::abortMerge
AbortMerge ==
    /\ pc = "preview"
    /\ pc' = "rejected"
    /\ UNCHANGED <<src, tgt, m_mode, runs, changes, pre, mid, m_changes, signal, pass>>

\* the builds of the program: Q_ASSERT is compiled out when QT_NO_DEBUG is set
Builds == {"debug", "release"}

\* Merger::Merger with a null source or target: the debug build stops at the
\* assertion, the release build returns and leaves m_context without a database
ConstructNull ==
    /\ pc = "idle"
    /\ runs = 0
    /\ m_mode = "Default"
    /\ \E build \in Builds : pc' = IF build = "debug" THEN "aborted" ELSE "null"
    /\ UNCHANGED <<src, tgt, m_mode, runs, changes, pre, mid, m_changes, signal, pass>>

\* what dereferencing the null m_sourceGroup in mergeGroup can come to: the
\* process is stopped, or the call goes on as if the group held nothing
NullDereference == {"crashed", "inert"}

\* merge() on a merger built from a null input: mergeGroup(m_context) reads
\* context.m_sourceGroup->entries() with m_sourceGroup null
MergeNull ==
    /\ pc = "null"
    /\ \E outcome \in NullDereference : pc' = outcome
    /\ changes' = <<>>
    /\ UNCHANGED <<src, tgt, m_mode, runs, pre, mid, m_changes, signal, pass>>

Next ==
    \/ ConstructNull
    \/ MergeNull
    \/ SetForcedMergeMode
    \/ ResetForcedMergeMode
    \/ MergeTree
    \/ MergeDeletions
    \/ GroupPass
    \/ MergeMetadata
    \/ SetupChangeTable
    \/ PerformMerge
    \/ AbortMerge

Spec == InitTree /\ [][Next]_vars
SpecHistory == InitHistory /\ [][Next]_vars
SpecDeletions == InitDeletions /\ [][Next]_vars
SpecMetadata == InitMetadata /\ [][Next]_vars
SpecPhases == InitPhases /\ [][Next]_vars
SpecGroups == InitGroups /\ [][Next]_vars
SpecNesting == InitNesting /\ [][Next]_vars
\* merge() runs to its end: the loop takes its next turn and returns when the
\* queue is empty
SpecNestingFair == SpecNesting /\ WF_vars(GroupPass)

(* ------------------------------ claims --------------------------------- *)
\* merge() has returned
MergeReturned == pc \in {"done", "accepted"}

\* the live entry of uuid u
EntryOf(db, u) == db.entries[findEntryByUuid(db, u)]
GroupOf(db, u) == db.groups[findGroupByUuid(db, u)]

\* merge() has returned from a run in Synchronize mode
SynchronizeReturned == MergeReturned /\ effectiveMode(m_mode, pre) = "Synchronize"

Min(S) == CHOOSE x \in S : \A y \in S : x <= y
Max(a, b) == IF a >= b THEN a ELSE b

\* the deletion times a log holds for uuid u
TimesOf(log, u) == {d.time : d \in {x \in Range(log) : x.uuid = u}}

\* the records of one type the change list holds for uuid u
Records(type, u) == {k \in DOMAIN changes : changes[k].type = type /\ changes[k].uuid = u}

\* C1 as stated: when merge() of the source into the target has run once, a
\* second merge() of the same source into the resulting target returns an empty
\* change list.
C1_Idempotence == (pc = "done" /\ runs >= 2) => changes = <<>>

\* C2 as stated: the change list of the merge into the dialog's temporary
\* database equals the change list of the later merge into the target, and
\* performMerge emits databaseMerged.
C2_PreviewFidelity == pc = "accepted" => (changes = m_changes /\ signal = "databaseMerged")

\* C11 as stated: when the effective merge mode is not Synchronize, merge()
\* leaves the target's deletion log as it was and no uuid live in the target
\* before the call stops being live.
C11_DeletionsOnlyInSynchronize ==
    (MergeReturned /\ effectiveMode(m_mode, pre) # "Synchronize") =>
        /\ tgt.del = pre.del
        /\ LiveEntries(pre) \subseteq LiveEntries(tgt)
        /\ LiveGroups(pre) \subseteq LiveGroups(tgt)

\* C11, the deletion log alone (the part that does not meet the relocation of a
\* group beneath its own descendant)
DeletionLogKept ==
    (MergeReturned /\ effectiveMode(m_mode, pre) # "Synchronize") => tgt.del = pre.del

\* C12 as stated: after the tree phase every entry and group uuid live in the
\* source is live in the target; an item whose uuid was not live in the target
\* sits under the target group of its source parent's uuid and has exactly one
\* Added record, and no uuid that was live in the target has an Added record.
C12_CreateMissing ==
    pc = "tree" =>
        /\ LiveEntries(src) \subseteq LiveEntries(tgt)
        /\ LiveGroups(src) \subseteq LiveGroups(tgt)
        /\ \A u \in (LiveEntries(src) \cap LiveEntries(tgt)) \ LiveEntries(pre) :
              /\ EntryOf(tgt, u).group = EntryOf(src, u).group
              /\ Cardinality(Records("Added", u)) = 1
        /\ \A u \in (LiveGroups(src) \cap LiveGroups(tgt)) \ LiveGroups(pre) :
              /\ GroupOf(tgt, u).parent = GroupOf(src, u).parent
              /\ Cardinality(Records("Added", u)) = 1
        /\ \A u \in LiveEntries(pre) \cup LiveGroups(pre) : Records("Added", u) = {}

\* the phase a change record comes from: 1 tree, 2 deletions, 3 metadata
PhaseOf(change) ==
    IF change.type \in {"Added", "Moved", "Modified"} THEN 1
    ELSE IF change.type = "Deleted" \/ change.details = "Changed deleted objects" THEN 2
    ELSE 3

\* C13: while merge() runs and when it has returned, the change list holds the
\* tree phase's records, then the deletion phase's, then the metadata phase's;
\* after the tree phase it holds tree records only, and after the deletion phase
\* no metadata record yet.
C13_PhaseOrder ==
    /\ pc \in {"tree", "del", "done", "accepted"} =>
          \A i, j \in DOMAIN changes : i < j => PhaseOf(changes[i]) <= PhaseOf(changes[j])
    /\ pc = "tree" => \A i \in DOMAIN changes : PhaseOf(changes[i]) = 1
    /\ pc = "del" => \A i \in DOMAIN changes : PhaseOf(changes[i]) <= 2

\* a merge returned whose change list holds records of all three phases
C13_Witness ==
    /\ MergeReturned
    /\ \A phase \in 1..3 : \E i \in DOMAIN changes : PhaseOf(changes[i]) = phase

\* the source's custom data is the newer one for the merge that produced tgt
SourceCustomDataNewer == pre.lm = NoTime \/ (src.lm # NoTime /\ pre.lm < src.lm)

\* the custom data records of one kind the change list holds for a key
CustomDataRecords(details, key) ==
    {k \in DOMAIN changes : changes[k].details = details /\ changes[k].arg[1] = key}

\* the keys merge() removed from and set in the target's custom data
KeysRemoved == DOMAIN pre.cd \ DOMAIN tgt.cd
KeysSet == {key \in DOMAIN tgt.cd : key \notin DOMAIN pre.cd \/ pre.cd[key] # tgt.cd[key]}

\* C14, the values read through CustomData::value: every source key reads the
\* source's value in the target.
SourceValuesRead ==
    (MergeReturned /\ SourceCustomDataNewer) =>
        \A key \in DOMAIN src.cd : customDataValue(tgt, key) = src.cd[key]

\* C14, removal and records: target keys the source lacks are gone unless
\* protected, and each key set or removed has exactly one record, other keys none.
RemovedAndRecorded ==
    (MergeReturned /\ SourceCustomDataNewer) =>
        /\ \A key \in DOMAIN pre.cd \ DOMAIN src.cd :
              IF isProtected(key) THEN key \in DOMAIN tgt.cd /\ tgt.cd[key] = pre.cd[key]
              ELSE key \notin DOMAIN tgt.cd
        /\ \A key \in DOMAIN pre.cd \cup DOMAIN src.cd :
              /\ Cardinality(CustomDataRecords("Removed custom data", key)) =
                    IF key \in KeysRemoved THEN 1 ELSE 0
              /\ Cardinality(CustomDataRecords("Adding custom data", key)) =
                    IF key \in KeysSet THEN 1 ELSE 0

\* C14 as stated: when the target's custom data has no LastModified or the
\* source's is strictly newer, after merge() every source key is in the target
\* with the source's value, every target key the source lacks is removed unless
\* protected, and each key set or removed has exactly one change record.
C14_CustomDataNewestWins ==
    (MergeReturned /\ SourceCustomDataNewer) =>
        /\ \A key \in DOMAIN src.cd : key \in DOMAIN tgt.cd /\ tgt.cd[key] = src.cd[key]
        /\ RemovedAndRecorded

\* the source icons the target did not hold before the merge, in source order
IconsAdded == SelectSeq(src.icons, LAMBDA icon : ~hasCustomIcon(pre, icon.uuid))

\* C15: after merge() the target's custom icons are its icons from before the
\* merge, blobs unchanged, followed by the source icons whose uuid it lacked, in
\* the source's order; the change list holds exactly one 'Adding missing icon'
\* record per icon added, in that order.
C15_IconUnion ==
    MergeReturned =>
        /\ tgt.icons = pre.icons \o IconsAdded
        /\ SelectSeq(changes, LAMBDA change : change.details = "Adding missing icon") =
              [i \in DOMAIN IconsAdded |-> TextChange("Adding missing icon",
                                                       <<IconsAdded[i].uuid>>)]

\* a merge that added two icons to a target that held none, from a source whose
\* order is not the alphabetical one, or added one beside one the target held
\* with another blob
C15_Witness ==
    /\ MergeReturned
    /\ \/ pre.icons = <<>> /\ Len(IconsAdded) = 2 /\ IconsAdded[1].uuid = "i2"
       \/ /\ Len(IconsAdded) = 1
          /\ \E i \in DOMAIN pre.icons, j \in DOMAIN src.icons :
                pre.icons[i].uuid = src.icons[j].uuid /\ pre.icons[i].blob # src.icons[j].blob

\* C16 as stated: merge() on a merger constructed with a null source or target
\* does not reach an error state; it returns an empty change list and leaves
\* both databases as they were.
C16_NullMergerInert ==
    /\ pc # "crashed"
    /\ pc = "inert" => (changes = <<>> /\ tgt = pre /\ ~tgt.modified)

Tombstoned(log) == {d.uuid : d \in Range(log)}

\* the tombstones a log holds for uuid u, by position
TombstonesOf(log, u) == {k \in DOMAIN log : log[k].uuid = u}

\* the items of a database reachable from its root
Live(db) == LiveEntries(db) \cup LiveGroups(db)

\* C18: after a merge() in Synchronize mode, every uuid that had a tombstone in
\* the target's or the source's log before the call and is not live in the
\* target has exactly one tombstone in the target's log.
C18_NoTombstoneLost ==
    SynchronizeReturned =>
        \A u \in (Tombstoned(pre.del) \cup Tombstoned(src.del)) \ Live(tgt) :
            Cardinality(TombstonesOf(tgt.del, u)) = 1

\* a Synchronize merge returned that took over a source tombstone for a uuid the
\* target neither held nor had a tombstone for, and deleted an entry and a group
\* that were live when the deletion phase started
C18_Witness ==
    /\ SynchronizeReturned
    /\ \E u \in Tombstoned(src.del) \ (Tombstoned(pre.del) \cup Live(pre)) :
          u \in Tombstoned(tgt.del)
    /\ \E u \in LiveEntries(mid) \ Live(tgt) : u \in Tombstoned(tgt.del)
    /\ \E u \in LiveGroups(mid) \ Live(tgt) : u \in Tombstoned(tgt.del)

\* the groups below the root that both sides hold and the merge left live
GroupsKept == (LiveGroups(src) \cap LiveGroups(pre) \cap LiveGroups(tgt)) \ {ROOT}

\* C19 as stated: for a group live on both sides, merge() overwrites the target
\* group's properties and lastModified with the source's and records one
\* 'Overwriting group properties' exactly when the source's lastModified,
\* truncated to the second, is after the target's, truncated to the second;
\* otherwise the properties stay and there is no record.
C19_GroupConflictNormalized ==
    MergeReturned =>
        \A u \in GroupsKept :
            IF serialized(GroupOf(src, u).mod) > serialized(GroupOf(pre, u).mod)
            THEN /\ GroupOf(tgt, u).name = GroupOf(src, u).name
                 /\ GroupOf(tgt, u).mod = GroupOf(src, u).mod
                 /\ Cardinality(Records("Modified", u)) = 1
            ELSE /\ GroupOf(tgt, u).name = GroupOf(pre, u).name
                 /\ GroupOf(tgt, u).mod = GroupOf(pre, u).mod
                 /\ Records("Modified", u) = {}

\* C19 with the times compared as they are: the overwrite happens exactly when
\* the source's lastModified is after the target's.
GroupConflictRaw ==
    MergeReturned =>
        \A u \in GroupsKept :
            IF GroupOf(src, u).mod > GroupOf(pre, u).mod
            THEN /\ GroupOf(tgt, u).name = GroupOf(src, u).name
                 /\ GroupOf(tgt, u).mod = GroupOf(src, u).mod
                 /\ Cardinality(Records("Modified", u)) = 1
            ELSE /\ GroupOf(tgt, u).name = GroupOf(pre, u).name
                 /\ GroupOf(tgt, u).mod = GroupOf(pre, u).mod
                 /\ Records("Modified", u) = {}

\* the uuids in the order in which the deletion phase of the merge that
\* produced tgt decided them
Decided == decideQueued(mid, mergedDeletions(src, mid)).decided

\* where the deletion phase decided uuid u
DecidedAt(u) == FirstIndex({k \in DOMAIN Decided : Decided[k] = u})

\* the groups below group g when the deletion phase started, at any depth
DescendantsOf(g) == ReachFrom(mid, {g}, Len(mid.groups)) \ {g}

\* every tombstoned live entry is decided before any tombstoned group
EntriesDecidedFirst ==
    \A i, j \in DOMAIN Decided :
        (Decided[i] \in LiveGroups(mid) /\ Decided[j] \in LiveEntries(mid)) => j < i

\* C20 as stated: in the deletion phase every tombstoned live entry is decided
\* before any tombstoned group, and a tombstoned group is decided only after
\* every tombstoned group that is its descendant at any depth.
C20_LeafFirstAnyDepth ==
    SynchronizeReturned =>
        /\ EntriesDecidedFirst
        /\ \A g \in Range(Decided) \cap LiveGroups(mid) :
              \A h \in Range(Decided) \cap DescendantsOf(g) : DecidedAt(h) < DecidedAt(g)

\* C20, amended: every tombstoned live entry is decided before any tombstoned
\* group, every queued item is decided once, and a tombstoned group is decided
\* only after every tombstoned group that is its child, whatever the order of
\* the tombstones in the two logs.
C20_ChildFirst ==
    SynchronizeReturned =>
        /\ EntriesDecidedFirst
        /\ \A i, j \in DOMAIN Decided : Decided[i] = Decided[j] => i = j
        /\ Range(Decided) =
              (Tombstoned(mid.del) \cup Tombstoned(src.del)) \cap Live(mid)
        /\ \A g \in Range(Decided) \cap LiveGroups(mid) :
              \A h \in Range(Decided) \cap LiveGroups(mid) :
                  GroupOf(mid, h).parent = g => DecidedAt(h) < DecidedAt(g)

\* a Synchronize merge returned whose logs name a group before its child and
\* that child before its own child, with a tombstoned entry as well
C20_Witness ==
    /\ SynchronizeReturned
    /\ Range(Decided) \cap LiveEntries(mid) # {}
    /\ \E i, j, k \in DOMAIN mid.del :
          /\ i < j /\ j < k
          /\ {mid.del[i].uuid, mid.del[j].uuid, mid.del[k].uuid} \subseteq LiveGroups(mid)
          /\ GroupOf(mid, mid.del[j].uuid).parent = mid.del[i].uuid
          /\ GroupOf(mid, mid.del[k].uuid).parent = mid.del[j].uuid

\* the entries and groups beneath group g when the deletion phase started
Beneath(g) ==
    DescendantsOf(g) \cup
    {e.uuid : e \in {x \in Range(mid.entries) : x.group \in DescendantsOf(g) \cup {g}}}

\* something beneath group g is still there at the moment g is decided: it
\* outlives the merge, or it is decided, and erased, only after g
RemainsBeneath(g) ==
    \E x \in Beneath(g) :
        x \in Live(tgt) \/ (x \in Range(Decided) /\ DecidedAt(x) > DecidedAt(g))

\* the earliest deletion time the two logs hold for uuid u
EarliestDeletion(u) == Min(TimesOf(mid.del, u) \cup TimesOf(src.del, u))

\* C21: in Synchronize mode a tombstoned live group is erased exactly when its
\* last-modification time is not after its tombstone's time and nothing remains
\* beneath it at the moment it is decided; a group that is kept has no tombstone
\* in the target's log after the merge.
C21_GroupRetention ==
    SynchronizeReturned =>
        \A g \in Range(Decided) \cap LiveGroups(mid) :
            /\ g \notin LiveGroups(tgt)
                  <=> (GroupOf(mid, g).mod <= EarliestDeletion(g) /\ ~RemainsBeneath(g))
            /\ g \in LiveGroups(tgt) => g \notin Tombstoned(tgt.del)

\* a Synchronize merge returned that erased one tombstoned group, kept another
\* because it was modified after its tombstone, and kept a third, not modified
\* since, because of what it held
C21_Witness ==
    /\ SynchronizeReturned
    /\ \E g \in Range(Decided) \cap LiveGroups(mid) : g \notin LiveGroups(tgt)
    /\ \E g \in Range(Decided) \cap LiveGroups(tgt) :
          GroupOf(mid, g).mod > EarliestDeletion(g)
    /\ \E g \in Range(Decided) \cap LiveGroups(tgt) :
          GroupOf(mid, g).mod <= EarliestDeletion(g) /\ RemainsBeneath(g)

\* C3: after a merge() in Synchronize mode, every tombstone of the target's
\* deletion log names a uuid that no live entry or group of the target has, or
\* its time is not after that live item's last-modification time.
C3_DeletionClosure ==
    SynchronizeReturned =>
        \A k \in DOMAIN tgt.del :
            /\ tgt.del[k].uuid \in LiveEntries(tgt)
                  => tgt.del[k].time <= EntryOf(tgt, tgt.del[k].uuid).mod
            /\ tgt.del[k].uuid \in LiveGroups(tgt)
                  => tgt.del[k].time <= GroupOf(tgt, tgt.del[k].uuid).mod

\* a Synchronize merge returned that deleted one tombstoned item live at the start
\* of the deletion phase and let another one, edited since, live
C3_Witness ==
    /\ SynchronizeReturned
    /\ \E u \in Tombstoned(tgt.del) : u \in LiveEntries(mid) \cup LiveGroups(mid)
    /\ \E u \in Tombstoned(mid.del) \cup Tombstoned(src.del) :
          u \in LiveEntries(tgt) \cup LiveGroups(tgt)

\* C4 as stated: in Synchronize mode, for a uuid tombstoned in the target's and in
\* the source's log, every tombstone the post-merge log holds for it carries the
\* smaller of the two times, live or not.
C4_EarliestTombstoneWins ==
    SynchronizeReturned =>
        \A u \in Tombstoned(pre.del) \cap Tombstoned(src.del) :
            \A k \in DOMAIN tgt.del :
                tgt.del[k].uuid = u
                    => tgt.del[k].time = Min(TimesOf(pre.del, u) \cup TimesOf(src.del, u))

\* the entry of uuid u, live when the deletion phase started, is edited after the
\* earliest of its tombstones
Survives(u) == EntryOf(mid, u).mod > Min(TimesOf(mid.del, u) \cup TimesOf(src.del, u))

\* C5: in Synchronize mode an entry live when the deletion phase starts and
\* tombstoned on either side is live after merge() exactly when its
\* last-modification time is strictly after the earliest tombstone time; a
\* survivor has no tombstone in the post-merge log, and one that does not survive
\* has its earliest tombstone there, once, and one Deleted record.
C5_DeleteVersusEdit ==
    SynchronizeReturned =>
        \A u \in LiveEntries(mid) \cap (Tombstoned(mid.del) \cup Tombstoned(src.del)) :
            /\ u \in LiveEntries(tgt) <=> Survives(u)
            /\ Survives(u) => u \notin Tombstoned(tgt.del)
            /\ ~Survives(u) =>
                  /\ Cardinality({k \in DOMAIN tgt.del : tgt.del[k].uuid = u}) = 1
                  /\ TimesOf(tgt.del, u) = {Min(TimesOf(mid.del, u) \cup TimesOf(src.del, u))}
                  /\ Cardinality(Records("Deleted", u)) = 1

\* an entry tombstoned on both sides survived a Synchronize merge because the
\* earlier tombstone counts: it was not edited after the later one
C5_Witness ==
    /\ SynchronizeReturned
    /\ \E u \in LiveEntries(mid) \cap LiveEntries(tgt) :
          /\ TimesOf(mid.del, u) # {}
          /\ TimesOf(src.del, u) # {}
          /\ \E t \in TimesOf(mid.del, u) \cup TimesOf(src.del, u) : EntryOf(mid, u).mod <= t

\* the live groups and entries of a database, by kind and index
LiveItems(db) ==
    {<<"group", i>> : i \in {j \in DOMAIN db.groups : db.groups[j].parent \in LiveGroups(db)}}
    \cup {<<"entry", i>> : i \in {j \in DOMAIN db.entries : db.entries[j].group \in LiveGroups(db)}}

UuidOf(db, item) ==
    IF item[1] = "group" THEN db.groups[item[2]].uuid ELSE db.entries[item[2]].uuid

UniqueUuids(db) ==
    \A x, y \in LiveItems(db) : UuidOf(db, x) = UuidOf(db, y) => x = y

EntriesOnBothSides == LiveEntries(src) \cap LiveEntries(pre) \cap LiveEntries(tgt)

\* the current revision comes from the side with the strictly newer second
WinnerKept(u) ==
    Rev(EntryOf(tgt, u)) =
        IF serialized(EntryOf(src, u).mod) > serialized(EntryOf(pre, u).mod)
        THEN Rev(EntryOf(src, u)) ELSE Rev(EntryOf(pre, u))

GroupsOnBothSides == (LiveGroups(src) \cap LiveGroups(pre) \cap LiveGroups(tgt)) \ {ROOT}

\* locationChanged is the larger of the two, cut to whole seconds, and the parent
\* is the one of the side that supplied it
LocationOrdered(sourceLoc, targetLoc, sourceParent, targetParent, loc, parent) ==
    /\ loc = Max(serialized(sourceLoc), serialized(targetLoc))
    /\ serialized(sourceLoc) > serialized(targetLoc) => parent = sourceParent
    /\ serialized(sourceLoc) < serialized(targetLoc) => parent = targetParent
    /\ parent \in {sourceParent, targetParent}

\* C8 as stated: every entry and group live on both sides before merge() and live
\* in the target after it has the larger of the two normalized locationChanged
\* times and the parent it had on the side that supplied it.
C8_LocationOrder ==
    MergeReturned =>
        /\ \A u \in EntriesOnBothSides :
              LocationOrdered(EntryOf(src, u).loc, EntryOf(pre, u).loc,
                              EntryOf(src, u).group, EntryOf(pre, u).group,
                              EntryOf(tgt, u).loc, EntryOf(tgt, u).group)
        /\ \A u \in GroupsOnBothSides :
              LocationOrdered(GroupOf(src, u).loc, GroupOf(pre, u).loc,
                              GroupOf(src, u).parent, GroupOf(pre, u).parent,
                              GroupOf(tgt, u).loc, GroupOf(tgt, u).parent)

\* C9 as stated: after merge() every entry live in the target has at most
\* maxItems history items.
C9_HistoryCap ==
    MergeReturned =>
        \A e \in Range(tgt.entries) :
            e.group \in LiveGroups(tgt) => Len(e.hist) <= tgt.maxItems

\* the seconds at which a chain holds a revision
HistSeconds(hist) == {serialized(hist[i].mod) : i \in DOMAIN hist}

\* the entry of the side that lost: the older one
Loser(u) ==
    IF serialized(EntryOf(src, u).mod) > serialized(EntryOf(pre, u).mod)
    THEN EntryOf(pre, u) ELSE EntryOf(src, u)

\* C10 as stated: for an entry live on both sides with differing seconds, when the
\* distinct revision seconds fit in maxItems, the merged history holds the losing
\* side's current revision at its second, and a revision for every second of
\* either side's history.
C10_NoRevisionDropped ==
    MergeReturned =>
        \A u \in EntriesOnBothSides :
            LET seconds == HistSeconds(EntryOf(src, u).hist) \cup HistSeconds(EntryOf(pre, u).hist)
                               \cup {serialized(Loser(u).mod)}
            IN (/\ serialized(EntryOf(src, u).mod) # serialized(EntryOf(pre, u).mod)
                /\ Cardinality(seconds) <= pre.maxItems)
               => /\ \E i \in DOMAIN EntryOf(tgt, u).hist :
                        /\ serialized(EntryOf(tgt, u).hist[i].mod) = serialized(Loser(u).mod)
                        /\ EntryOf(tgt, u).hist[i].title = Loser(u).title
                  /\ seconds \subseteq HistSeconds(EntryOf(tgt, u).hist)

\* the entries mergeHistory was called on for the entry of uuid u: with a newer
\* source, the target entry merges into the clone of the source entry
SourceNewer(u) == compare(EntryOf(pre, u).mod, EntryOf(src, u).mod) < 0
HistorySource(u) == IF SourceNewer(u) THEN EntryOf(pre, u) ELSE EntryOf(src, u)
HistoryTarget(u) == IF SourceNewer(u) THEN EntryOf(src, u) ELSE EntryOf(pre, u)

\* the last n items of a chain
LastItems(hist, n) ==
    IF n <= 0 THEN <<>>
    ELSE IF Len(hist) > n THEN SubSeq(hist, Len(hist) - n + 1, Len(hist)) ELSE hist

\* two chains are pairwise equal, sub-second differences ignored
SameItems(a, b) == Len(a) = Len(b) /\ \A i \in DOMAIN a : RevEquals(a[i], b[i])

\* what mergeHistory returns when it compares the last n items of the merged
\* chain to the last n items of the target entry's chain
HistoryComparing(targetHistoryItems, updatedHistoryItems, maxItems, n) ==
    IF SameItems(LastItems(updatedHistoryItems, n), LastItems(targetHistoryItems, n))
    THEN [changed |-> FALSE, hist |-> targetHistoryItems]
    ELSE [changed |-> TRUE, hist |-> truncateHistory(updatedHistoryItems, maxItems)]

\* C22 as stated: mergeHistory reports no change and leaves the target entry's
\* history as it is exactly when the last maxItems items of the merged chain are
\* pairwise equal, sub-second differences ignored, to the last maxItems items of
\* the entry's chain; otherwise it installs the merged chain and reports a change.
C22_HistoryChangeDetection ==
    MergeReturned =>
        \A u \in EntriesOnBothSides :
            /\ EntryOf(tgt, u).hist =
                  mergeHistory(HistorySource(u), HistoryTarget(u), pre.maxItems).hist
            /\ mergeHistory(HistorySource(u), HistoryTarget(u), pre.maxItems) =
                  HistoryComparing(HistoryTarget(u).hist,
                                   mergedHistory(HistorySource(u), HistoryTarget(u)),
                                   pre.maxItems, pre.maxItems)

\* C22 with the comparison the loop makes: index count - i for i = 0 is past the
\* end on both chains, so the last maxItems - 1 items are compared.
HistoryComparedShort ==
    MergeReturned =>
        \A u \in EntriesOnBothSides :
            /\ EntryOf(tgt, u).hist =
                  mergeHistory(HistorySource(u), HistoryTarget(u), pre.maxItems).hist
            /\ mergeHistory(HistorySource(u), HistoryTarget(u), pre.maxItems) =
                  HistoryComparing(HistoryTarget(u).hist,
                                   mergedHistory(HistorySource(u), HistoryTarget(u)),
                                   pre.maxItems, pre.maxItems - 1)

\* C23 as stated: after the tree phase of a merge() every group and entry live
\* in the target before the call is still reachable from the target root, and
\* every group the target holds hangs beneath the root, none beneath itself.
C23_TargetStaysTree ==
    pc \in {"tree", "del", "done", "accepted"} =>
        /\ LiveGroups(pre) \subseteq LiveGroups(mid)
        /\ LiveEntries(pre) \subseteq LiveEntries(mid)
        /\ \A g \in Range(mid.groups) : g.uuid \in LiveGroups(mid)

\* C24: when merge() returns an empty change list the target is what it was
\* before the call, in its tree, entries, histories, times, group properties,
\* deletion log, icons and custom data, and its modified mark is as before; when
\* the list is not empty the target is marked as modified.
C24_EveryMutationReported ==
    MergeReturned =>
        /\ changes = <<>> => tgt = pre
        /\ changes # <<>> => tgt.modified

\* a first merge returned an empty change list although the source holds an
\* entry the target holds too, in another revision or with other custom data
C24_Witness ==
    /\ MergeReturned
    /\ runs = 1
    /\ changes = <<>>
    /\ \E u \in LiveEntries(src) \cap LiveEntries(pre) :
          \/ EntryOf(src, u).mod # EntryOf(pre, u).mod
          \/ EntryOf(src, u).title # EntryOf(pre, u).title

\* C25: every entry or group that was live when the deletion phase started and
\* is not live after merge() has a tombstone of its own in the target's or the
\* source's log; outside Synchronize mode nothing stops being live.
C25_NoCollateralDeletion ==
    MergeReturned =>
        /\ Live(mid) \ Live(tgt) \subseteq Tombstoned(mid.del) \cup Tombstoned(src.del)
        /\ effectiveMode(m_mode, pre) # "Synchronize" => Live(mid) \subseteq Live(tgt)
        /\ \A k \in DOMAIN changes :
              changes[k].type = "Deleted"
                  => changes[k].uuid \in Tombstoned(mid.del) \cup Tombstoned(src.del)

\* a Synchronize merge returned that erased a tombstoned item and kept a
\* tombstoned group, not modified since its tombstone, together with an item
\* beneath it that has no tombstone
C25_Witness ==
    /\ SynchronizeReturned
    /\ Live(mid) \ Live(tgt) # {}
    /\ \E g \in Range(Decided) \cap LiveGroups(tgt) :
          /\ GroupOf(mid, g).mod <= EarliestDeletion(g)
          /\ \E x \in Beneath(g) \cap Live(tgt) :
                x \notin Tombstoned(mid.del) \cup Tombstoned(src.del)

\* the groups the union queued for the merge in progress
Queued == mergedDeletions(src, mid).gs

\* the groups the loop over the queue has decided so far
PassDecided == SelectSeq(pass.d.decided, LAMBDA u : u \in Range(Queued))

\* C26: the loop over the queued groups comes to its end, whatever tree the
\* target holds beneath its root and whatever groups are queued in whatever
\* order; while it runs no group is decided twice and none is both decided and
\* queued, and when the queue is empty every queued group has been decided
\* exactly once.
C26_GroupPassTerminates ==
    /\ [](pc = "groups" =>
            /\ \A i, j \in DOMAIN PassDecided : PassDecided[i] = PassDecided[j] => i = j
            /\ Range(PassDecided) \cap Range(pass.gs) = {}
            /\ Range(PassDecided) \cup Range(pass.gs) = Range(Queued)
            /\ Len(pass.gs) + Len(PassDecided) = Len(Queued))
    /\ (pc = "groups") ~> (pc = "del")

\* the loop has emptied a queue of three groups that named a group before its
\* child and that child before its own child, so that groups went back to the tail
C26_Witness ==
    /\ pc = "groups"
    /\ pass.gs = <<>>
    /\ Len(Queued) = 3
    /\ GroupOf(mid, Queued[2]).parent = Queued[1]
    /\ GroupOf(mid, Queued[3]).parent = Queued[2]

\* the loops taken turn by turn leave what mergeDeletions leaves in one step
GroupPassAgrees ==
    pc = "del" =>
        /\ tgt = mergeDeletions(src, St(mid, <<>>), effectiveMode(m_mode, pre)).t
        /\ changes = mergeRootGroup(src, pre).ch
                        \o mergeDeletions(src, St(mid, <<>>), effectiveMode(m_mode, pre)).ch

=============================================================================
